---------------------------- MODULE Spec2Model ----------------------------
(***************************************************************************)
(* Model of the naumen_api report lifecycle.                               *)
(*                                                                         *)
(*   Spec    the CRM client of src/clamp/crm/client.py: the transport      *)
(*           call _get_crm_response and the report locator                 *)
(*           _find_report_uuid with its recursive poll _searching.         *)
(*   SpecSL  the service-level parser of                                   *)
(*           src/naumen_api/parser/service_level.py: parse,                *)
(*           _service_lavel_data_completion, _formating_service_level_data.*)
(*   SpecCells       the same parser on tables that may hold a cell that   *)
(*           is not numeric text.                                          *)
(*   SpecCompletion  _service_lavel_data_completion applied, once and      *)
(*           again, to the day dictionary parse hands to it.               *)
(*   SpecClient      the Client of src/naumen_api/naumen_api.py: connect   *)
(*           and the report methods served by _get_response.               *)
(*                                                                         *)
(* Python values are modelled as records carrying their Python type in     *)
(* the field "type", so that attribute access can fail the way it does in  *)
(* the interpreter.  Percentages are kept in tenths of a percent           *)
(* (100.0 is 1000), the precision round(x, 1) leaves.                      *)
(***************************************************************************)
EXTENDS Integers, Sequences, FiniteSets, TLC

VARIABLES
    backend,    \* CRM side: the responses the session gives to successive posts
    call,       \* CRM side: the call made on the client module and its arguments
    posts,      \* CRM side: number of session.post requests really sent
    sleeps,     \* CRM side: the sleep() durations performed, in order
    outcome,    \* CRM side: how the call ended
    names,      \* CRM side: the report names generated so far, in order
    page,       \* SL side: the report page handed to parse
    today,      \* SL side: the date datetime.now() gives
    sl_result,  \* SL side: how parse ended and what it returned
    completion, \* SL side: the day dictionary under completion
    client,     \* Client side: the fields of the Client object
    service,    \* Client side: what successive backend invocations will do
    api,        \* Client side: the last Client method call and its response
    seen        \* Client side: the situations met and the responses given

vars == <<backend, call, posts, sleeps, outcome, names, page, today, sl_result, completion, client, service, api, seen>>
crm_vars == <<backend, call, posts, sleeps, outcome, names>>
sl_vars == <<page, today, sl_result, completion>>
client_vars == <<client, service, api, seen>>

(***************************************************************************)
(* Bounds of the model.                                                    *)
(***************************************************************************)
MaxAttempts == 2    \* largest attempt budget num_attems tried
MaxDelay == 2       \* largest delay_attems tried
MonthLen == 3       \* days in a month of the model calendar
MaxRows == 2        \* most data rows of a report table
MaxBuilds == 2      \* most report requests built
NameRange == 2      \* number of values randint can give
MaxRuns == 2        \* most applications of completion to one dictionary
MaxCalls == 3       \* most report and search calls on one Client

(***************************************************************************)
(* The CRM client: src/clamp/crm/client.py                                 *)
(***************************************************************************)

\* class NaumenRequest(NamedTuple): the names an instance answers to.
NaumenRequest == {"url", "headers", "params", "data", "verify"}

\* A request built for the given purpose ("search" the listing, "create").
MkRequest(purpose) == [type |-> "NaumenRequest", url |-> purpose]

\* Attribute lookup obj.name: a NaumenRequest has exactly its declared
\* fields, a list (what star-unpacking produces) has none of them.
HasAttr(obj, name) == obj.type = "NaumenRequest" /\ name \in NaumenRequest

\* The responses of the remote session: a status code and a body.  The body
\* is either empty or a listing page holding `matches` entries whose name is
\* the report name searched for.
Response(status_code, empty, matches) ==
    [status_code |-> status_code, empty |-> empty, matches |-> matches]

ResponseKinds ==
    { Response(500, FALSE, 1), Response(200, TRUE, 0), Response(200, FALSE, 0),
      Response(200, FALSE, 1), Response(200, FALSE, 2) }

\* Number of responses the backend script holds: enough for every poll of
\* the largest budget.
ScriptLen == MaxAttempts + 1

\* The effects a call has had so far: requests sent and sleeps performed.
World(p, s) == [posts |-> p, sleeps |-> s]

\* What a function call yields: the world after it, and either a returned
\* value (exc = "") or the name of the exception raised.
Ret(w, value) == [w |-> w, exc |-> "", value |-> value]
Raise(w, exc) == [w |-> w, exc |-> exc, value |-> <<>>]

\* parse_naumen_page(page_text, report_name, PageType.REPORT_LIST_PAGE):
\* the identifiers of the listed reports named report_name.
parse_naumen_page(text) == [i \in 1..text.matches |-> "uuid"]

\* _get_crm_response(crm, request), lines 141-148.  The arguments of
\* session.post are evaluated first, in order: request.url, request.header,
\* request.params, request.data, request.verify.  A lookup that fails
\* raises AttributeError before anything is sent.
PostAttrs == <<"url", "header", "params", "data", "verify">>

_get_crm_response(w, script, request) ==
    IF \E i \in 1..Len(PostAttrs) : ~HasAttr(request, PostAttrs[i])
    THEN Raise(w, "AttributeError")
    ELSE LET sent == World(w.posts + 1, w.sleeps)
             response == script[sent.posts]
         IN  IF response.status_code # 200 \/ response.empty
             THEN Raise(sent, "ConnectionsFailed")
             ELSE Ret(sent, response)

\* _searching(num_attems, search_request), lines 335-358; delay_attems and
\* report_name are the enclosing function's variables.
RECURSIVE _searching(_, _, _, _, _)
_searching(w, script, delay_attems, num_attems, search_request) ==
    LET slept == World(w.posts, Append(w.sleeps, delay_attems))
        got == _get_crm_response(slept, script, search_request)
    IN  IF got.exc # "" THEN got
        ELSE LET parsed_collection == parse_naumen_page(got.value)
             IN  IF Len(parsed_collection) = 0
                 THEN IF num_attems >= 1
                      THEN _searching(got.w, script, delay_attems,
                                      num_attems - 1, search_request)
                      ELSE Raise(got.w, "CantGetData")
                 ELSE Ret(got.w, parsed_collection)

\* _find_report_uuid(crm, params), lines 333-364.  params is the tuple the
\* signature declares, (NaumenRequest, str, int, int); the starred target
\* search_request collects what precedes the last three items into a list.
_find_report_uuid(w, script, params) ==
    LET search_request == [type |-> "list", items |-> <<params.request>>]
        found == _searching(w, script, params.delay_attems, params.num_attems,
                            search_request)
    IN  IF found.exc # "" THEN found
        ELSE IF Len(found.value) # 1 THEN Raise(found.w, "CantGetData")
        ELSE Ret(found.w, found.value[1])

\* class TypeReport(Enum), lines 25-41: the members of the enumeration.
TypeReport ==
    {"ISSUES_FIRST_LINE", "ISSUES_VIP_LINE", "SERVICE_LEVEL", "MTTR_LEVEL",
     "FLR_LEVEL"}

\* What a caller may pass as report: a member, or a value of another type.
ReportArguments == TypeReport \cup {"not a TypeReport"}

\* randint(1000000, 9999999), line 388: any value of the range, each call
\* drawing independently of the ones before.
randint == 1..NameRange

\* _get_report_name(), line 388, for the value randint gave.
_get_report_name(drawn) == <<"ID", drawn>>

\* Number of positional arguments each request creator requires, lines
\* 184, 207, 230-231, 262-263, 290-291.
RequiredArguments ==
    [ISSUES_FIRST_LINE |-> 0, ISSUES_VIP_LINE |-> 0, SERVICE_LEVEL |-> 3,
     MTTR_LEVEL |-> 3, FLR_LEVEL |-> 3]

\* _create_request_issues_first_line() and _create_request_issues_vip_line(),
\* lines 195-204 and 218-227: the request and the SearchOptions
\* (name, delay_attems, num_attems, uuid) built around the generated name.
_create_request_issues(name, delay_attems, num_attems) ==
    [request |-> MkRequest("create"),
     search_options |-> [name |-> name, delay_attems |-> delay_attems,
                         num_attems |-> num_attems, uuid |-> "uuid"]]

\* obj[key]: a dict can be subscripted, a bound method such as dict.get
\* cannot.
Subscriptable(obj) == obj.type = "dict"

\* The object the expression request_creators.get evaluates to, line 174.
request_creators_get == [type |-> "builtin_function_or_method"]

\* The creator selected at line 174 is called, line 175: the dispatch
\* reaches the creator and the creator accepts a call without arguments.
CreatorRuns(report) ==
    /\ report \in TypeReport
    /\ Subscriptable(request_creators_get)
    /\ RequiredArguments[report] = 0

\* _create_report_in_crm(crm, report), lines 161-180.  Every member of
\* TypeReport is a key of request_creators, so the KeyError handler of
\* line 176 has nothing to catch.  search_params is a SearchOptions; the
\* unpacking of line 333 binds its name to search_request, delay_attems to
\* report_name, num_attems to delay_attems and uuid to num_attems.
_create_report_in_crm(w, script, report, name, delay_attems, num_attems) ==
    IF report \notin TypeReport THEN Raise(w, "CantGetData")
    ELSE IF ~Subscriptable(request_creators_get) THEN Raise(w, "TypeError")
    ELSE IF RequiredArguments[report] # 0 THEN Raise(w, "TypeError")
    ELSE LET built == _create_request_issues(name, delay_attems, num_attems)
             search_params == built.search_options
             created == _get_crm_response(w, script, built.request)
         IN  IF created.exc # "" THEN created
             ELSE LET report_uuid ==
                          _find_report_uuid(created.w, script,
                              [request |-> search_params.name,
                               report_name |-> search_params.delay_attems,
                               delay_attems |-> search_params.num_attems,
                               num_attems |-> search_params.uuid])
                  IN  IF report_uuid.exc # "" THEN report_uuid
                      ELSE Ret(report_uuid.w, "None")

(***************************************************************************)
(* The state machine of the CRM client.                                    *)
(***************************************************************************)
NoCall == [fn |-> "none"]
NoOutcome == [kind |-> "none", value |-> ""]

Outcome(r) ==
    IF r.exc # "" THEN [kind |-> "raise", value |-> r.exc]
    ELSE [kind |-> "return", value |-> "value"]

Scripts == [1..ScriptLen -> ResponseKinds]

InitCrm ==
    /\ backend \in Scripts
    /\ call = NoCall
    /\ posts = 0
    /\ sleeps = <<>>
    /\ outcome = NoOutcome
    /\ names = <<>>

\* The parser is not running.
IdleSL ==
    /\ page = [start_date |-> 1, end_date |-> 1, rows |-> <<>>]
    /\ today = 1
    /\ sl_result = [status |-> "idle", groups |-> <<>>, days |-> <<>>,
                    collection |-> <<>>]
    /\ completion = [runs |-> 0, groups |-> <<>>, days |-> <<>>, before |-> <<>>]

\* No Client has been constructed.
IdleClient ==
    /\ client = [username |-> "", password |-> "", domain |-> "",
                 session |-> "None"]
    /\ service = <<>>
    /\ api = [method |-> "none", calls |-> 0]
    /\ seen = {}

\* A caller runs _get_crm_response(crm, request) on a built request.
GetCrmResponse ==
    /\ call = NoCall
    /\ \E purpose \in {"create", "search"} :
         LET r == _get_crm_response(World(posts, sleeps), backend,
                                    MkRequest(purpose))
         IN  /\ call' = [fn |-> "_get_crm_response", purpose |-> purpose]
             /\ posts' = r.w.posts
             /\ sleeps' = r.w.sleeps
             /\ outcome' = Outcome(r)
    /\ UNCHANGED <<backend, names, sl_vars, client_vars>>

\* A caller runs _find_report_uuid(crm, params).
FindReportUuid ==
    /\ call = NoCall
    /\ \E n \in -1..MaxAttempts, d \in 1..MaxDelay :
         LET params == [request |-> MkRequest("search"), report_name |-> "ID",
                        delay_attems |-> d, num_attems |-> n]
             r == _find_report_uuid(World(posts, sleeps), backend, params)
         IN  /\ call' = [fn |-> "_find_report_uuid", num_attems |-> n,
                         delay_attems |-> d]
             /\ posts' = r.w.posts
             /\ sleeps' = r.w.sleeps
             /\ outcome' = Outcome(r)
    /\ UNCHANGED <<backend, names, sl_vars, client_vars>>

\* A caller builds a report request with _create_request_issues_first_line()
\* or _create_request_issues_vip_line(); the builder draws the report name.
CreateRequest ==
    /\ Len(names) < MaxBuilds
    /\ \E drawn \in randint, d \in 1..MaxDelay, n \in 0..MaxAttempts :
         LET built == _create_request_issues(_get_report_name(drawn), d, n)
         IN  names' = Append(names, built.search_options.name)
    /\ UNCHANGED <<backend, call, posts, sleeps, outcome, sl_vars, client_vars>>

\* A caller runs _create_report_in_crm(crm, report).
CreateReportInCrm ==
    /\ call = NoCall
    /\ Len(names) < MaxBuilds
    /\ \E report \in ReportArguments, drawn \in randint :
         LET name == _get_report_name(drawn)
             r == _create_report_in_crm(World(posts, sleeps), backend, report,
                                        name, 1, MaxAttempts)
         IN  /\ call' = [fn |-> "_create_report_in_crm", report |-> report]
             /\ posts' = r.w.posts
             /\ sleeps' = r.w.sleeps
             /\ outcome' = Outcome(r)
             /\ names' = IF CreatorRuns(report) THEN Append(names, name)
                         ELSE names
    /\ UNCHANGED <<backend, sl_vars, client_vars>>

Init == InitCrm /\ IdleSL /\ IdleClient

Next == GetCrmResponse \/ FindReportUuid \/ CreateRequest \/ CreateReportInCrm

Spec == Init /\ [][Next]_vars

(***************************************************************************)
(* The service-level parser: src/naumen_api/parser/service_level.py        *)
(***************************************************************************)

\* Dates are day ordinals 1..MaxDate of a calendar whose months have
\* MonthLen days; the range may run over the end of the first month.
MaxDate == MonthLen + 1
DayOfMonth(date) == ((date - 1) % MonthLen) + 1

\* support_group_count, line 66.
support_group_count == 2

\* CONFIG.config["defaul_group_name"]["value"], line 105.
default_group == <<"G1", "G2">>

\* Group names that a report table may carry.
GroupNames == {"G1", "G2", "G3"}

\* Cell texts.  int() and float() accept numeric text only; the value of a
\* percentage is kept in tenths of a percent.
IntText == <<"0", "1", "2", "3">>
IsIntText(t) == \E i \in 1..Len(IntText) : IntText[i] = t
int(t) == (CHOOSE i \in 1..Len(IntText) : IntText[i] = t) - 1

IsFloatText(t) == t \in {"0.0", "66.7", "100.0"}
float(t) == CASE t = "0.0" -> 0 [] t = "66.7" -> 667 [] t = "100.0" -> 1000

\* A RawRow of the table: column label -> cell text.  The fields stand for
\* the labels "День", "Группа", "Поступило в ТП", "Количество первичных",
\* "Принято за 15 минут", "В очереди более 15 мин", "Service Level (%)".
RawRow(day, group, cells) ==
    [day |-> day, group |-> group, total_issues |-> cells[1],
     total_primary_issues |-> cells[2], num_issues_before_deadline |-> cells[3],
     num_issues_after_deadline |-> cells[4], service_level |-> cells[5]]

\* The cell contents a data row of the backend may have.
CellProfiles == { <<"3", "2", "2", "1", "66.7">>, <<"1", "1", "0", "1", "0.0">> }

\* _get_date_range(start_date, end_date): the dates of the closed range.
_get_date_range(start_date, end_date) ==
    [i \in 1..(end_date - start_date + 1) |-> start_date + i - 1]

\* The keys of the day dictionary in insertion order: the day-of-month of
\* each date of the range, a key kept at its first insertion.
RECURSIVE DayKeys(_, _)
DayKeys(date_range, keys) ==
    IF date_range = <<>> THEN keys
    ELSE LET d == DayOfMonth(Head(date_range))
         IN  DayKeys(Tail(date_range),
                     IF \E i \in 1..Len(keys) : keys[i] = d
                     THEN keys ELSE Append(keys, d))

\* _forming_days_dict(date_range, day_collection, page_type): a bucket per
\* day of the range, holding the rows of that day in table order.  A dict
\* is a sequence of entries in insertion order.
_forming_days_dict(date_range, day_collection) ==
    LET keys == DayKeys(date_range, <<>>)
    IN  [i \in 1..Len(keys) |->
            [day |-> keys[i],
             content |-> SelectSeq(day_collection, LAMBDA r : r.day = keys[i])]]

\* The set of the elements of a sequence.
Range(s) == { s[i] : i \in 1..Len(s) }

\* tuple(group): the elements of a set in some order; set iteration order
\* is not fixed, so every order is possible.
Orderings(S) ==
    { t \in [1..Cardinality(S) -> S] : \A x \in S : \E i \in DOMAIN t : t[i] = x }

\* The row completion synthesizes, lines 152-154 and 163-165.
SynthRow(day, group, sl) == RawRow(day, group, <<"0", "0", "0", "0", sl>>)

\* Mutant of AppendMissing: a row is appended for every group, the test
\* group not in day_groups of line 161 is missing.
AppendMissing_without_membership_test(content, groups, day, sl) ==
    content \o [g \in 1..Len(groups) |-> SynthRow(day, groups[g], sl)]

\* The rows appended for the groups missing from a day, lines 159-166.
RECURSIVE AppendMissing(_, _, _, _)
AppendMissing(content, groups, day, sl) ==
    IF groups = <<>> THEN content
    ELSE LET day_groups == { content[i].group : i \in 1..Len(content) }
             group == Head(groups)
         IN  AppendMissing(
                 IF group \notin day_groups
                 THEN Append(content, SynthRow(day, group, sl)) ELSE content,
                 Tail(groups), day, sl)

\* Mutant of _service_lavel_data_completion: a day that lacks rows is
\* rebuilt from synthesized rows, as an empty day is.
_service_lavel_data_completion_rebuilds_days(days, groups, now_day) ==
    [i \in 1..Len(days) |->
        LET day == days[i].day
            content == days[i].content
            sl == IF now_day >= day THEN "100.0" ELSE "0.0"
        IN  [day |-> day,
             content |->
                IF Len(content) # 2
                THEN [g \in 1..Len(groups) |-> SynthRow(day, groups[g], sl)]
                ELSE content]]

\* _service_lavel_data_completion(days, groups, lable), lines 145-167;
\* now_day is datetime.now().day.
_service_lavel_data_completion(days, groups, now_day) ==
    [i \in 1..Len(days) |->
        LET day == days[i].day
            content == days[i].content
            sl == IF now_day >= day THEN "100.0" ELSE "0.0"
        IN  [day |-> day,
             content |->
                IF Len(content) = 0
                THEN [g \in 1..Len(groups) |-> SynthRow(day, groups[g], sl)]
                ELSE IF Len(content) # 2
                THEN AppendMissing(content, groups, day, sl)
                ELSE content]]

\* class ServiceLevel, lines 23-44.
ServiceLevel(day, group, total_issues, total_primary_issues, num_issues_before_deadline, num_issues_after_deadline, service_level) ==
    [day |-> day, group |-> group, total_issues |-> total_issues,
     total_primary_issues |-> total_primary_issues,
     num_issues_before_deadline |-> num_issues_before_deadline,
     num_issues_after_deadline |-> num_issues_after_deadline,
     service_level |-> service_level]

\* round(num / den * 100, 1) in tenths of a percent: round(x, 1) rounds to
\* the nearest tenth, a tie to the even one.
RoundPercent(num, den) ==
    LET q == (1000 * num) \div den
        r == (1000 * num) % den
    IN  IF 2 * r > den \/ (2 * r = den /\ q % 2 = 1) THEN q + 1 ELSE q

\* The record of one data row, lines 192-212.
RowRecord(data) ==
    ServiceLevel(data.day, data.group, int(data.total_issues),
                 int(data.total_primary_issues),
                 int(data.num_issues_before_deadline),
                 int(data.num_issues_after_deadline),
                 float(data.service_level))

\* Sum of one field over a sequence of records (the gen_ accumulators).
RECURSIVE SumField(_, _)
SumField(records, f) ==
    IF records = <<>> THEN 0 ELSE Head(records)[f] + SumField(Tail(records), f)

\* gen_service_level, lines 190 and 215-217.
gen_service_level(gen_num_issues_before_deadline, gen_total_issues) ==
    IF gen_total_issues # 0
    THEN RoundPercent(gen_num_issues_before_deadline, gen_total_issues)
    ELSE 0

\* Mutant of TotalRecord: the primary total accumulates total_issues, the
\* variable of the line above.
TotalRecord_primary_from_total(day, records) ==
    LET gen_total_issues == SumField(records, "total_issues")
        gen_num_issues_before_deadline ==
            SumField(records, "num_issues_before_deadline")
    IN  ServiceLevel(day, "Total", gen_total_issues, gen_total_issues,
                     gen_num_issues_before_deadline,
                     SumField(records, "num_issues_after_deadline"),
                     gen_service_level(gen_num_issues_before_deadline,
                                       gen_total_issues))

\* Mutant of TotalRecord: the percentages of the rows are accumulated, as
\* the statement commented out at line 203 would do.
TotalRecord_sums_percentages(day, records) ==
    LET gen_total_issues == SumField(records, "total_issues")
        gen_num_issues_before_deadline ==
            SumField(records, "num_issues_before_deadline")
    IN  ServiceLevel(day, "Total", gen_total_issues,
                     SumField(records, "total_primary_issues"),
                     gen_num_issues_before_deadline,
                     SumField(records, "num_issues_after_deadline"),
                     IF gen_total_issues # 0
                     THEN gen_service_level(gen_num_issues_before_deadline,
                                            gen_total_issues)
                     ELSE SumField(records, "service_level"))

\* The "Итог" record of a day, lines 186-190 and 215-228.
TotalRecord(day, records) ==
    LET gen_total_issues == SumField(records, "total_issues")
        gen_total_primary_issues == SumField(records, "total_primary_issues")
        gen_num_issues_before_deadline ==
            SumField(records, "num_issues_before_deadline")
        gen_num_issues_after_deadline ==
            SumField(records, "num_issues_after_deadline")
    IN  ServiceLevel(day, "Total", gen_total_issues, gen_total_primary_issues,
                     gen_num_issues_before_deadline,
                     gen_num_issues_after_deadline,
                     gen_service_level(gen_num_issues_before_deadline,
                                       gen_total_issues))

\* The day_collection of one day, lines 185-230.
DayCollection(entry) ==
    LET records == [i \in 1..Len(entry.content) |-> RowRecord(entry.content[i])]
    IN  Append(records, TotalRecord(entry.day, records))

\* A row has a cell that int() or float() rejects, lines 194-198.
BadCell(data) ==
    \/ ~IsIntText(data.total_issues)
    \/ ~IsIntText(data.total_primary_issues)
    \/ ~IsIntText(data.num_issues_before_deadline)
    \/ ~IsIntText(data.num_issues_after_deadline)
    \/ ~IsFloatText(data.service_level)

\* _formating_service_level_data(days), lines 183-231.
_formating_service_level_data(days) ==
    IF \E i \in 1..Len(days) :
          \E j \in 1..Len(days[i].content) : BadCell(days[i].content[j])
    THEN [status |-> "ValueError", collection |-> <<>>]
    ELSE [status |-> "returned",
          collection |-> [i \in 1..Len(days) |-> DayCollection(days[i])]]

\* What parse yields: how it ended, the group tuple and completed day
\* dictionary it worked on, and the collection returned.
ParseResult(status, groups, days, collection) ==
    [status |-> status, groups |-> groups, days |-> days,
     collection |-> collection]

\* Mutant of MergedGroup: the default names are merged in whatever number
\* of names was found.
MergedGroup_always(group) == Range(default_group) \cup group

\* The group names after the half-found merge, lines 100-109.
MergedGroup(group) ==
    IF 2 * Cardinality(group) = support_group_count
    THEN Range(default_group) \cup group
    ELSE group

\* Mutant of parse_table: completion comes before the group tests, and an
\* empty group set gets the default names.
parse_table_completing_first(text, now_day, group_order) ==
    LET day_collection == text.rows
        date_range == _get_date_range(text.start_date, text.end_date)
        days == _forming_days_dict(date_range, day_collection)
        group == { day_collection[i].group : i \in 1..Len(day_collection) }
        groups == IF group = {} THEN default_group ELSE group_order
        completed == _service_lavel_data_completion(days, groups, now_day)
        formatted == _formating_service_level_data(completed)
    IN  IF /\ 2 * Cardinality(group) = support_group_count
           /\ Cardinality(MergedGroup(group)) # support_group_count
        THEN ParseResult("CantGetData", <<>>, <<>>, <<>>)
        ELSE ParseResult(formatted.status, groups, completed,
                         formatted.collection)

\* Mutant of parse_table: the test of lines 96-98 for an empty group set is
\* missing.
parse_table_without_empty_test(text, now_day, group_order) ==
    LET day_collection == text.rows
        date_range == _get_date_range(text.start_date, text.end_date)
        days == _forming_days_dict(date_range, day_collection)
        group == { day_collection[i].group : i \in 1..Len(day_collection) }
    IN  IF /\ 2 * Cardinality(group) = support_group_count
           /\ Cardinality(MergedGroup(group)) # support_group_count
        THEN ParseResult("CantGetData", <<>>, <<>>, <<>>)
        ELSE LET completed ==
                     _service_lavel_data_completion(days, group_order, now_day)
                 formatted == _formating_service_level_data(completed)
             IN  ParseResult(formatted.status, group_order, completed,
                             formatted.collection)

\* parse(text) from line 79 on: the table is read, the groups are checked,
\* the days completed and formatted.
parse_table(text, now_day, group_order) ==
    LET day_collection == text.rows
        date_range == _get_date_range(text.start_date, text.end_date)
        days == _forming_days_dict(date_range, day_collection)
        group == { day_collection[i].group : i \in 1..Len(day_collection) }
    IN  IF Cardinality(group) = 0
        THEN ParseResult("CantGetData", <<>>, <<>>, <<>>)
        ELSE IF /\ 2 * Cardinality(group) = support_group_count
                /\ Cardinality(MergedGroup(group)) # support_group_count
        THEN ParseResult("CantGetData", <<>>, <<>>, <<>>)
        ELSE LET completed ==
                     _service_lavel_data_completion(days, group_order, now_day)
                 formatted == _formating_service_level_data(completed)
             IN  ParseResult(formatted.status, group_order, completed,
                             formatted.collection)

\* Mutant of parse: the test start_date == end_date of line 76 is missing.
parse_without_equal_dates_test(text, now_day, group_order) ==
    parse_table(text, now_day, group_order)

\* parse(text), lines 66-122; group_order is the order in which
\* tuple(group) lists the group set.
parse(text, now_day, group_order) ==
    IF text.start_date = text.end_date
    THEN ParseResult("returned", <<>>, <<>>, <<>>)
    ELSE parse_table(text, now_day, group_order)

(***************************************************************************)
(* The state machine of the service-level parser.                          *)
(***************************************************************************)

\* The data rows a table for the range may hold: a day of the range, a
\* group name and the cell texts.
RowsFor(start_date, end_date) ==
    { RawRow(DayOfMonth(d), g, c) :
        d \in start_date..end_date, g \in GroupNames, c \in CellProfiles }

SeqsUpTo(S, n) == UNION { [1..k -> S] : k \in 0..n }

Pages ==
    UNION { UNION { [start_date : {s}, end_date : {e},
                     rows : SeqsUpTo(RowsFor(s, e), MaxRows)] : e \in s..MaxDate } :
            s \in 1..MaxDate }

IdleCrm ==
    /\ backend = [i \in 1..ScriptLen |-> Response(200, FALSE, 0)]
    /\ call = NoCall
    /\ posts = 0
    /\ sleeps = <<>>
    /\ outcome = NoOutcome
    /\ names = <<>>

NoParse == ParseResult("idle", <<>>, <<>>, <<>>)

\* The completion function is not running on its own.
IdleCompletion ==
    completion = [runs |-> 0, groups |-> <<>>, days |-> <<>>, before |-> <<>>]

\* The page is parsed on a day of the first month of the calendar.
InitSL ==
    /\ page \in Pages
    /\ today \in 1..MonthLen
    /\ sl_result = NoParse
    /\ IdleCompletion
    /\ IdleCrm
    /\ IdleClient

\* parse(text) runs on the report page; line 145 reads the day of the month
\* of the current date.
Parse ==
    /\ sl_result = NoParse
    /\ LET group == { page.rows[i].group : i \in 1..Len(page.rows) }
       IN  \E group_order \in Orderings(MergedGroup(group)) :
              sl_result' = parse(page, DayOfMonth(today), group_order)
    /\ UNCHANGED <<page, today, completion, crm_vars, client_vars>>

NextSL == Parse

SpecSL == InitSL /\ [][NextSL]_vars

(***************************************************************************)
(* The parser on tables with cells that are not numeric text.              *)
(***************************************************************************)

\* Cell contents with a count that is not a number, and with an empty
\* percentage cell.
BrokenCellProfiles ==
    { <<"3", "n/a", "2", "1", "66.7">>, <<"1", "1", "0", "1", "">> }

\* Tables over the first two days of the calendar whose rows are intact or
\* broken.
CellPages ==
    [start_date : {1}, end_date : {2},
     rows : SeqsUpTo({ RawRow(d, g, c) :
                         d \in 1..2, g \in Range(default_group),
                         c \in CellProfiles \cup BrokenCellProfiles }, MaxRows)]

InitCells ==
    /\ page \in CellPages
    /\ today \in 1..MaxDate
    /\ sl_result = NoParse
    /\ IdleCompletion
    /\ IdleCrm
    /\ IdleClient

SpecCells == InitCells /\ [][NextSL]_vars

(***************************************************************************)
(* _service_lavel_data_completion on the dictionary parse hands to it.     *)
(***************************************************************************)

\* The group names found in the rows of a table.
FoundGroups(text) == { text.rows[i].group : i \in 1..Len(text.rows) }

\* Tables of a range of several days whose group names pass the tests of
\* lines 96-114, so that parse reaches line 116.
CompletionPages ==
    { text \in
        UNION { UNION { [start_date : {s}, end_date : {e},
                         rows : SeqsUpTo({ RawRow(DayOfMonth(d), g, <<"3", "2", "2", "1", "66.7">>) :
                                             d \in s..e, g \in GroupNames },
                                         MaxRows)] : e \in (s + 1)..MaxDate } :
                s \in 1..MaxDate } :
        /\ FoundGroups(text) # {}
        /\ (2 * Cardinality(FoundGroups(text)) = support_group_count
               => Cardinality(MergedGroup(FoundGroups(text)))
                      = support_group_count) }

InitCompletion ==
    /\ page \in CompletionPages
    /\ today \in 1..MaxDate
    /\ sl_result = NoParse
    /\ \E groups \in Orderings(MergedGroup(FoundGroups(page))) :
          LET days == _forming_days_dict(
                          _get_date_range(page.start_date, page.end_date),
                          page.rows)
          IN  completion = [runs |-> 0, groups |-> groups, days |-> days,
                            before |-> days]
    /\ IdleCrm
    /\ IdleClient

\* _service_lavel_data_completion(days, groups, lable) runs on the
\* dictionary, which may be one it has completed before; the clock may have
\* moved on since.
Complete ==
    /\ completion.runs < MaxRuns
    /\ \E now \in today..MaxDate :
          /\ today' = now
          /\ completion' =
                [runs |-> completion.runs + 1,
                 groups |-> completion.groups,
                 days |-> _service_lavel_data_completion(
                              completion.days, completion.groups,
                              DayOfMonth(now)),
                 before |-> completion.days]
    /\ UNCHANGED <<page, sl_result, crm_vars, client_vars>>

NextCompletion == Complete

SpecCompletion == InitCompletion /\ [][NextCompletion]_vars

(***************************************************************************)
(* The Client: src/naumen_api/naumen_api.py                                *)
(***************************************************************************)

\* ResponseTemplate(status, ()): a response of the given status whose
\* description has not been set.
ResponseTemplate(status) == [status |-> status, description |-> ""]

\* error_response.status.description = text, lines 430-432 and 466-468.
WithDescription(template, text) == [template EXCEPT !.description = text]

\* How a Client method ends: it returns make_response(template), or an
\* exception leaves it.
Responded(template) ==
    [kind |-> "response", status |-> template.status,
     description |-> template.description]
Escaped(exc) == [kind |-> "raise", status |-> exc, description |-> ""]

\* What can happen inside one invocation of get_report or search.
Situations ==
    {"report ready", "network unreachable", "transport failure",
     "poll exhaustion", "invalid date", "unusable data", "broken cell"}

\* The exception the backend function raises in a situation ("" when it
\* returns the content): a failed transport raises ConnectionsFailed, an
\* exhausted or ambiguous search and an unusable table raise CantGetData, a
\* date of the wrong format raises InvalidDate, a cell int() rejects raises
\* ValueError, and the session raises ConnectionError when the host is
\* unreachable.
BackendRaises(situation) ==
    CASE situation = "report ready" -> ""
      [] situation = "network unreachable" -> "ConnectionError"
      [] situation = "transport failure" -> "ConnectionsFailed"
      [] situation = "poll exhaustion" -> "CantGetData"
      [] situation = "invalid date" -> "InvalidDate"
      [] situation = "unusable data" -> "CantGetData"
      [] situation = "broken cell" -> "ValueError"

\* Mutant of ErrorResponse: the InvalidDate clause does not set the
\* description.
ErrorResponse_without_description(exc) ==
    CASE exc = "ConnectionError" -> Responded(ResponseTemplate("GATEWAY_TIMEOUT"))
      [] exc = "CantGetData" -> Responded(ResponseTemplate("BAD_REQUEST"))
      [] exc = "InvalidDate" -> Responded(ResponseTemplate("BAD_REQUEST"))
      [] exc = "ConnectionsFailed" -> Responded(ResponseTemplate("UNAUTHORIZED"))
      [] OTHER -> Escaped(exc)

\* The except clauses of _get_response, lines 453-474, for the exception
\* raised inside the try block.
ErrorResponse(exc) ==
    CASE exc = "ConnectionError" -> Responded(ResponseTemplate("GATEWAY_TIMEOUT"))
      [] exc = "CantGetData" -> Responded(ResponseTemplate("BAD_REQUEST"))
      [] exc = "InvalidDate" ->
            Responded(WithDescription(ResponseTemplate("BAD_REQUEST"),
                "Invalid date format. Allowed date format: %d.%m.%Y"))
      [] exc = "ConnectionsFailed" -> Responded(ResponseTemplate("UNAUTHORIZED"))
      [] OTHER -> Escaped(exc)

\* call_func, lines 436-439: get_report for a TypeReport, search for a
\* SearchType.
call_func(report) ==
    IF report.type = "TypeReport" THEN "get_report" ELSE "search"

\* Mutant of _get_response: the test of line 427 for a missing session is
\* missing.
_get_response_without_session_test(self, report, script) ==
    LET content == BackendRaises(script[1])
    IN  [calls |-> 1, met |-> <<script[1]>>,
         result |-> IF content = ""
                    THEN Responded(ResponseTemplate("SUCCESS"))
                    ELSE ErrorResponse(content)]

\* Mutant of _get_response: a failed invocation of the backend function is
\* tried once more.
_get_response_retrying(self, report, script) ==
    IF self.session = "None"
    THEN [calls |-> 0, met |-> <<>>,
          result |-> Responded(WithDescription(ResponseTemplate("UNAUTHORIZED"),
                         "You are not authorized to get report."))]
    ELSE IF BackendRaises(script[1]) = ""
    THEN [calls |-> 1, met |-> <<script[1]>>,
          result |-> Responded(ResponseTemplate("SUCCESS"))]
    ELSE [calls |-> 2, met |-> <<script[1], script[2]>>,
          result |-> IF BackendRaises(script[2]) = ""
                     THEN Responded(ResponseTemplate("SUCCESS"))
                     ELSE ErrorResponse(BackendRaises(script[2]))]

\* Client._get_response(report, ...), lines 427-474.  script tells what
\* successive invocations of the backend function would do; the result
\* names the number of invocations made and the situations they met.
_get_response(self, report, script) ==
    IF self.session = "None"
    THEN [calls |-> 0, met |-> <<>>,
          result |-> Responded(WithDescription(ResponseTemplate("UNAUTHORIZED"),
                         "You are not authorized to get report."))]
    ELSE LET content == BackendRaises(script[1])
         IN  [calls |-> 1, met |-> <<script[1]>>,
              result |-> IF content = ""
                         THEN Responded(ResponseTemplate("SUCCESS"))
                         ELSE ErrorResponse(content)]

\* all([username, password, domain]), lines 81-82.
all(credentials) == \A i \in 1..Len(credentials) : credentials[i] # ""

\* Mutant of connect: a failed connection attempt clears the session.
connect_clearing_session(self, username, password, domain, session_raises) ==
    LET local_credentials == all(<<username, password, domain>>)
        self_credentials == all(<<self.username, self.password, self.domain>>)
        error_response == ResponseTemplate("UNAUTHORIZED")
    IN  IF ~(local_credentials \/ self_credentials)
        THEN [self |-> self, sessions |-> 0, login |-> <<>>,
              result |-> Responded(error_response)]
        ELSE LET stored ==
                     IF local_credentials
                     THEN [self EXCEPT !.username = username,
                                       !.password = password,
                                       !.domain = domain]
                     ELSE self
                 login == <<stored.username, stored.password, stored.domain>>
             IN  IF session_raises = ""
                 THEN [self |-> [stored EXCEPT !.session = "ActiveConnect"],
                       sessions |-> 1, login |-> login,
                       result |-> Responded(ResponseTemplate("SUCCESS"))]
                 ELSE IF session_raises = "ConnectionsFailed"
                 THEN [self |-> [stored EXCEPT !.session = "None"], sessions |-> 1, login |-> login,
                       result |-> Responded(error_response)]
                 ELSE [self |-> [stored EXCEPT !.session = "None"], sessions |-> 1, login |-> login,
                       result |-> Escaped(session_raises)]

\* Mutant of connect: the test of lines 85-87 for missing credentials is
\* missing, the connection is attempted with whatever is stored.
connect_without_credentials_test(self, username, password, domain, session_raises) ==
    LET local_credentials == all(<<username, password, domain>>)
        self_credentials == all(<<self.username, self.password, self.domain>>)
        error_response == ResponseTemplate("UNAUTHORIZED")
    IN  IF FALSE
        THEN [self |-> self, sessions |-> 0, login |-> <<>>,
              result |-> Responded(error_response)]
        ELSE LET stored ==
                     IF local_credentials
                     THEN [self EXCEPT !.username = username,
                                       !.password = password,
                                       !.domain = domain]
                     ELSE self
                 login == <<stored.username, stored.password, stored.domain>>
             IN  IF session_raises = ""
                 THEN [self |-> [stored EXCEPT !.session = "ActiveConnect"],
                       sessions |-> 1, login |-> login,
                       result |-> Responded(ResponseTemplate("SUCCESS"))]
                 ELSE IF session_raises = "ConnectionsFailed"
                 THEN [self |-> stored, sessions |-> 1, login |-> login,
                       result |-> Responded(error_response)]
                 ELSE [self |-> stored, sessions |-> 1, login |-> login,
                       result |-> Escaped(session_raises)]

\* Mutant of connect: the credentials given are stored only when the
\* connection attempt has succeeded.
connect_storing_after_attempt(self, username, password, domain, session_raises) ==
    LET local_credentials == all(<<username, password, domain>>)
        self_credentials == all(<<self.username, self.password, self.domain>>)
        error_response == ResponseTemplate("UNAUTHORIZED")
    IN  IF ~(local_credentials \/ self_credentials)
        THEN [self |-> self, sessions |-> 0, login |-> <<>>,
              result |-> Responded(error_response)]
        ELSE LET stored ==
                     IF local_credentials
                     THEN [self EXCEPT !.username = username,
                                       !.password = password,
                                       !.domain = domain]
                     ELSE self
                 login == <<stored.username, stored.password, stored.domain>>
             IN  IF session_raises = ""
                 THEN [self |-> [stored EXCEPT !.session = "ActiveConnect"],
                       sessions |-> 1, login |-> login,
                       result |-> Responded(ResponseTemplate("SUCCESS"))]
                 ELSE IF session_raises = "ConnectionsFailed"
                 THEN [self |-> self, sessions |-> 1, login |-> login,
                       result |-> Responded(error_response)]
                 ELSE [self |-> self, sessions |-> 1, login |-> login,
                       result |-> Escaped(session_raises)]

\* Client.connect(username, password, domain), lines 81-101; session_raises
\* is the exception get_session raises ("" when it returns the session).
\* The result names the number of get_session calls and the credentials
\* get_session was given.
connect(self, username, password, domain, session_raises) ==
    LET local_credentials == all(<<username, password, domain>>)
        self_credentials == all(<<self.username, self.password, self.domain>>)
        error_response == ResponseTemplate("UNAUTHORIZED")
    IN  IF ~(local_credentials \/ self_credentials)
        THEN [self |-> self, sessions |-> 0, login |-> <<>>,
              result |-> Responded(error_response)]
        ELSE LET stored ==
                     IF local_credentials
                     THEN [self EXCEPT !.username = username,
                                       !.password = password,
                                       !.domain = domain]
                     ELSE self
                 login == <<stored.username, stored.password, stored.domain>>
             IN  IF session_raises = ""
                 THEN [self |-> [stored EXCEPT !.session = "ActiveConnect"],
                       sessions |-> 1, login |-> login,
                       result |-> Responded(ResponseTemplate("SUCCESS"))]
                 ELSE IF session_raises = "ConnectionsFailed"
                 THEN [self |-> stored, sessions |-> 1, login |-> login,
                       result |-> Responded(error_response)]
                 ELSE [self |-> stored, sessions |-> 1, login |-> login,
                       result |-> Escaped(session_raises)]

\* The values a caller may pass as deadline: a str holding a number, a str
\* holding something else, and None.
Deadlines ==
    { [type |-> "str", text |-> "15"], [type |-> "str", text |-> "soon"],
      [type |-> "NoneType", text |-> "None"] }

\* int(deadline), line 247: the exception it raises ("" when it converts).
IntRaises(deadline) ==
    IF deadline.type = "int" THEN ""
    ELSE IF deadline.type = "str"
    THEN IF deadline.text = "15" THEN "" ELSE "ValueError"
    ELSE "TypeError"

\* Mutant of get_sl_report: the deadline is passed on as it is given.
get_sl_report_without_deadline_test(self, deadline, script) ==
    _get_response(self, [type |-> "TypeReport"], script)

\* Client.get_sl_report(start_date, end_date, deadline), lines 245-275.
get_sl_report(self, deadline, script) ==
    IF IntRaises(deadline) \in {"ValueError", "TypeError"}
    THEN [calls |-> 0, met |-> <<>>,
          result |-> Responded(WithDescription(ResponseTemplate("BAD_REQUEST"),
                         "Invalid deadline value"))]
    ELSE _get_response(self, [type |-> "TypeReport"], script)

(***************************************************************************)
(* The state machine of the Client.                                        *)
(***************************************************************************)

\* The credentials a constructor or connect may be given: none, an
\* incomplete triple and two complete ones.
Credentials ==
    { <<"", "", "">>, <<"user", "", "">>, <<"user", "secret", "CORP">>,
      <<"admin", "hidden", "CORP">> }

\* What the backend function does on its first invocation and what it
\* would do on a further one: return the report, or fail again.
ServiceScripts ==
    { script \in [1..2 -> Situations] :
        script[2] \in {"report ready", "unusable data"} }

NoApiCall == [method |-> "none", calls |-> 0]

\* Client(username=..., password=..., domain=...), lines 49-53.
InitClient ==
    /\ \E c \in Credentials :
          client = [username |-> c[1], password |-> c[2], domain |-> c[3],
                    session |-> "None"]
    /\ service = <<>>
    /\ api = NoApiCall
    /\ seen = {}
    /\ IdleCrm
    /\ IdleSL

\* Number of report and search calls made on the Client so far.
ReportCalls == IF api.method = "none" THEN 0 ELSE api.count

\* The caller runs connect.
Connect ==
    /\ \E c \in Credentials,
          session_raises \in {"", "ConnectionsFailed", "ConnectionError"} :
          LET r == connect(client, c[1], c[2], c[3], session_raises)
          IN  /\ client' = r.self
              /\ api' = [method |-> "connect", count |-> ReportCalls,
                         calls |-> r.sessions, result |-> r.result,
                         args |-> c, login |-> r.login, before |-> client]
    /\ UNCHANGED <<service, seen, crm_vars, sl_vars>>

\* The caller runs a report method (get_issues, get_mttr_report, ...) or a
\* search method, which ends in _get_response.
GetResponse ==
    /\ ReportCalls < MaxCalls
    /\ \E type \in {"TypeReport", "SearchType"}, script \in ServiceScripts :
          LET report == [type |-> type]
              r == _get_response(client, report, script)
          IN  /\ service' = script
              /\ api' = [method |-> call_func(report), count |-> ReportCalls + 1,
                         calls |-> r.calls, result |-> r.result]
              /\ seen' = IF r.met = <<>> THEN seen
                         ELSE seen \cup {<<r.met[Len(r.met)], r.result>>}
    /\ UNCHANGED <<client, crm_vars, sl_vars>>

\* The caller runs get_sl_report.
GetSlReport ==
    /\ ReportCalls < MaxCalls
    /\ \E deadline \in Deadlines, script \in ServiceScripts :
          LET r == get_sl_report(client, deadline, script)
          IN  /\ service' = script
              /\ api' = [method |-> "get_sl_report", count |-> ReportCalls + 1,
                         calls |-> r.calls, result |-> r.result,
                         deadline |-> deadline]
              /\ seen' = IF r.met = <<>> THEN seen
                         ELSE seen \cup {<<r.met[Len(r.met)], r.result>>}
    /\ UNCHANGED <<client, crm_vars, sl_vars>>

NextClient == Connect \/ GetResponse \/ GetSlReport

SpecClient == InitClient /\ [][NextClient]_vars

(***************************************************************************)
(* Claims about the CRM client, checked under Spec.                        *)
(***************************************************************************)

\* The call _find_report_uuid has run to its end.
Located == call.fn = "_find_report_uuid" /\ outcome.kind # "none"

\* The backend answers every poll with status 200 and a non-empty listing
\* page that does not hold the report name.
NeverListed ==
    \A i \in 1..ScriptLen : backend[i] = Response(200, FALSE, 0)

\* Index of the first poll the backend would not answer with "not listed
\* yet" (0 when there is none among the polls the budget allows).
RECURSIVE FirstDecisive(_, _)
FirstDecisive(i, n) ==
    IF i > n + 1 \/ i > ScriptLen THEN 0
    ELSE IF backend[i] # Response(200, FALSE, 0) THEN i
    ELSE FirstDecisive(i + 1, n)

RECURSIVE SumSeq(_)
SumSeq(s) == IF s = <<>> THEN 0 ELSE Head(s) + SumSeq(Tail(s))

\* C1: when the listing never contains the report name and no transport
\* error occurs, _find_report_uuid with budget n >= 0 issues exactly n + 1
\* listing requests and then raises CantGetData.
C1_RequestsOneMoreThanBudget ==
    (Located /\ NeverListed /\ call.num_attems >= 0)
        => /\ posts = call.num_attems + 1
           /\ outcome = [kind |-> "raise", value |-> "CantGetData"]

\* C2: with budget n and a listing that never contains the name, exactly n
\* poll iterations occur, each preceded by one wait of the configured delay,
\* before CantGetData is raised; the total waiting is at most n * delay.
C2_PollsEqualBudget ==
    (Located /\ NeverListed /\ call.num_attems >= 0)
        => /\ posts = call.num_attems
           /\ Len(sleeps) = call.num_attems
           /\ SumSeq(sleeps) <= call.num_attems * call.delay_attems
           /\ outcome = [kind |-> "raise", value |-> "CantGetData"]

\* C3: if a poll (the first or a retry) finds exactly one entry with the
\* report name, locate returns that entry's identifier and polls no more.
C3_SingleMatchIsFound ==
    (Located /\ call.num_attems >= 0
       /\ FirstDecisive(1, call.num_attems) # 0
       /\ backend[FirstDecisive(1, call.num_attems)] = Response(200, FALSE, 1))
        => /\ outcome.kind = "return"
           /\ posts = FirstDecisive(1, call.num_attems)

\* C4: if a poll gets a transport failure (non-200 status or empty body),
\* locate ends at once with ConnectionsFailed: no further wait, no further
\* request, whatever budget remains.
C4_TransportFailureEndsLocate ==
    (Located /\ call.num_attems >= 0
       /\ FirstDecisive(1, call.num_attems) # 0
       /\ LET r == backend[FirstDecisive(1, call.num_attems)]
          IN  r.status_code # 200 \/ r.empty)
        => /\ outcome = [kind |-> "raise", value |-> "ConnectionsFailed"]
           /\ posts = FirstDecisive(1, call.num_attems)
           /\ Len(sleeps) = posts

\* C5: if a poll finds more than one entry with the report name, locate
\* raises CantGetData without retrying and returns no identifier.
C5_AmbiguousMatchIsDataError ==
    (Located /\ call.num_attems >= 0
       /\ FirstDecisive(1, call.num_attems) # 0
       /\ LET r == backend[FirstDecisive(1, call.num_attems)]
          IN  r.status_code = 200 /\ ~r.empty /\ r.matches > 1)
        => /\ outcome = [kind |-> "raise", value |-> "CantGetData"]
           /\ posts = FirstDecisive(1, call.num_attems)

\* C6: _get_crm_response sends the request exactly once; it returns the
\* response text for status 200 with a non-empty body and raises
\* ConnectionsFailed for a non-200 status or an empty body.
C6_ResponseSentOnce ==
    (call.fn = "_get_crm_response" /\ outcome.kind # "none")
        => /\ posts = 1
           /\ IF backend[1].status_code = 200 /\ ~backend[1].empty
              THEN outcome.kind = "return"
              ELSE outcome = [kind |-> "raise", value |-> "ConnectionsFailed"]

\* C14: any two report-request builds get different report names: no two
\* submissions ever carry the same generated name.
C14_NamesNeverRepeat ==
    \A i, j \in 1..Len(names) : i # j => names[i] # names[j]

\* C15: _create_report_in_crm called with a report that is not a member of
\* TypeReport raises CantGetData before any request is sent; called with a
\* member it does not raise that error at dispatch but builds the request,
\* drawing its name, and submits it.
C15_DispatchByKind ==
    (call.fn = "_create_report_in_crm" /\ outcome.kind # "none") =>
        IF call.report \notin TypeReport
        THEN /\ outcome = [kind |-> "raise", value |-> "CantGetData"]
             /\ posts = 0
        ELSE /\ Len(names) = 1
             /\ posts >= 1

\* The first response of the backend is a transport failure.
FirstResponseFails == backend[1].status_code # 200 \/ backend[1].empty

\* C21: in one report call for a valid kind the creation request is sent
\* exactly once and before the first listing poll, so that every wait and
\* every listing poll comes after it; if the creation request fails with
\* ConnectionsFailed, no wait and no listing poll follows.
C21_CreationSentOnceFirst ==
    (call.fn = "_create_report_in_crm" /\ outcome.kind # "none"
        /\ call.report \in TypeReport) =>
        /\ posts >= 1
        /\ Len(sleeps) = posts - 1
        /\ FirstResponseFails =>
              /\ posts = 1
              /\ sleeps = <<>>
              /\ outcome = [kind |-> "raise", value |-> "ConnectionsFailed"]

\* C22: the locator sends its listing requests, the first one included,
\* each immediately preceded by exactly one wait, and every wait has the
\* length of the configured delay.
C22_OneWaitBeforeEachRequest ==
    Located =>
        /\ posts >= 1
        /\ Len(sleeps) = posts
        /\ \A i \in 1..Len(sleeps) : sleeps[i] = call.delay_attems

\* The largest number of polls a budget allows.
MostPolls(num_attems) == IF num_attems >= 1 THEN num_attems + 1 ELSE 1

\* C23: for every attempt budget, zero and negative ones included, and
\* every behaviour of the backend, a locate call ends as Found, as Exhausted
\* (CantGetData) or as Failed (ConnectionsFailed), after at least one poll
\* and no more polls than the budget allows.
C23_LocateEndsInThreeWays ==
    Located =>
        /\ \/ outcome.kind = "return"
           \/ outcome = [kind |-> "raise", value |-> "CantGetData"]
           \/ outcome = [kind |-> "raise", value |-> "ConnectionsFailed"]
        /\ posts >= 1
        /\ posts <= MostPolls(call.num_attems)

(***************************************************************************)
(* Claims about the service-level parser, checked under SpecSL.            *)
(***************************************************************************)

\* parse has returned a collection for the page.
Returned == sl_result.status = "returned"

\* The group records of a day-group (all but the last) and its Total record.
GroupRecords(day_group) == SubSeq(day_group, 1, Len(day_group) - 1)
Total(day_group) == day_group[Len(day_group)]

\* Number of days in the closed date range of the page.
RangeDays == page.end_date - page.start_date + 1

\* The day-of-month numbers that occur in the date range of the page.
RangeDayNumbers == { DayOfMonth(d) : d \in page.start_date..page.end_date }

C8_OneRowPerGroup ==
    (Returned /\ page.start_date # page.end_date) =>
        \A i \in 1..Len(sl_result.days) :
            LET content == sl_result.days[i].content
            IN  /\ Len(content) = support_group_count
                /\ \A g \in Range(sl_result.groups) :
                      Cardinality({ j \in 1..Len(content) : content[j].group = g })
                          = 1
                /\ Len(sl_result.collection[i]) = support_group_count + 1

\* C9: in every day-group each of the four counts of the Total record is
\* the sum of that count over the day's group records.
C9_TotalCountsAreSums ==
    Returned =>
        \A i \in 1..Len(sl_result.collection) :
            LET day_group == sl_result.collection[i]
            IN  \A f \in {"total_issues", "total_primary_issues",
                          "num_issues_before_deadline",
                          "num_issues_after_deadline"} :
                    Total(day_group)[f] = SumField(GroupRecords(day_group), f)

\* C9 witness: a day with two source rows of different counts has been
\* totalled.
C9_Witness ==
    /\ Returned
    /\ \E i \in 1..Len(sl_result.collection) :
          LET day_group == sl_result.collection[i]
          IN  /\ Len(day_group) = 3
              /\ day_group[1].group # day_group[2].group
              /\ day_group[1].total_issues = 3
              /\ day_group[2].total_issues = 1
              /\ Total(day_group).total_issues = 4
              /\ Total(day_group).num_issues_after_deadline = 2

\* t is the tenth of a percent nearest to num / den * 100, a tie going to
\* the even tenth.
IsNearestTenth(t, num, den) ==
    LET d == 1000 * num - t * den
    IN  \/ 2 * d < den /\ -2 * d < den
        \/ (2 * d = den \/ -2 * d = den) /\ t % 2 = 0

Synthesized(i) ==
    LET was == completion.before[i].content
        is == completion.days[i].content
    IN  IF was = <<>> THEN is ELSE SubSeq(is, Len(was) + 1, Len(is))

\* The group names that occur among rows.
GroupsOf(rows) == { rows[j].group : j \in 1..Len(rows) }

\* C11: every row completion synthesizes for a calendar day of the
\* requested range has zero counts and a service level of 100.0 when that
\* calendar day is on or before today's date and of 0.0 when it is after
\* today's date, whatever months the range and today fall in.
C11_SynthesizedLevelByDate ==
    completion.runs >= 1 =>
        \A i \in 1..Len(completion.days) :
            \A d \in page.start_date..page.end_date :
                DayOfMonth(d) = completion.days[i].day =>
                    \A j \in 1..Len(Synthesized(i)) :
                        LET row == Synthesized(i)[j]
                        IN  row = SynthRow(completion.days[i].day, row.group,
                                           IF d <= today THEN "100.0" ELSE "0.0")

\* Every day entry holds exactly one row for each of the groups.
IsComplete(days, groups) ==
    \A i \in 1..Len(days) :
        /\ Len(days[i].content) = Len(groups)
        /\ \A g \in Range(groups) :
              \E j \in 1..Len(days[i].content) : days[i].content[j].group = g

\* The day dictionary built from the page, before any completion.
SourceDays ==
    _forming_days_dict(_get_date_range(page.start_date, page.end_date),
                       page.rows)

\* C18: completion applied to a dictionary in which every day already has
\* one row per known group leaves every row list unchanged, and applied a
\* second time to its own output it changes nothing, so that the formatted
\* records are equal.
C18_CompletionIdempotent ==
    /\ (completion.runs >= 1
          /\ IsComplete(completion.before, completion.groups))
            => completion.days = completion.before
    /\ completion.runs >= 2
            => /\ completion.days = completion.before
               /\ _formating_service_level_data(completion.days)
                    = _formating_service_level_data(completion.before)

\* C18 witness: completion has run twice on a dictionary that lacked rows;
\* the first run added them and the second one changed nothing.
C18_Witness ==
    /\ completion.runs = 2
    /\ ~IsComplete(SourceDays, completion.groups)
    /\ completion.days # SourceDays
    /\ completion.days = completion.before

\* C19: for a day that has some but not all groups in the source,
\* completion only appends rows for the missing groups: every row present
\* before is still present afterwards, with the same values and in the same
\* relative order, and every row added is a synthesized row of a group the
\* day did not have.
C19_CompletionOnlyAppends ==
    completion.runs >= 1 =>
        \A i \in 1..Len(completion.days) :
            LET was == completion.before[i].content
                is == completion.days[i].content
            IN  (GroupsOf(was) # {} /\ GroupsOf(was) # Range(completion.groups))
                    => /\ Len(is) >= Len(was)
                       /\ SubSeq(is, 1, Len(was)) = was
                       /\ \A j \in (Len(was) + 1)..Len(is) :
                             /\ is[j].group \in Range(completion.groups)
                                                   \ GroupsOf(was)
                             /\ \E sl \in {"0.0", "100.0"} :
                                   is[j] = SynthRow(completion.days[i].day,
                                                    is[j].group, sl)
                             /\ \A k \in (Len(was) + 1)..Len(is) :
                                   is[k].group = is[j].group => k = j

\* C19 witness: a day that had a row of one group only has been completed:
\* the source row comes first, unchanged, and a synthesized row of the
\* other group follows it.
C19_Witness ==
    /\ completion.runs = 1
    /\ \E i \in 1..Len(completion.days) :
          LET was == completion.before[i].content
              is == completion.days[i].content
          IN  /\ Len(was) = 1
              /\ Len(is) = 2
              /\ is[1] = was[1]
              /\ is[1].total_issues = "3"
              /\ is[2].group # is[1].group
              /\ is[2].total_issues = "0"

(***************************************************************************)
(* Claims about the group tests of parse, checked under SpecSL, and about  *)
(* cells that are not numeric text, checked under SpecCells.               *)
(***************************************************************************)

\* parse has run to its end on the page.
Parsed == sl_result.status # "idle"

\* C12: when a count or percentage cell of a source row is missing or is
\* not numeric text, parse fails with CantGetData, the error the Client
\* reports as its data error response.
C12_BrokenCellIsDataError ==
    (Parsed /\ \E i \in 1..Len(page.rows) : BadCell(page.rows[i]))
        => sl_result.status = "CantGetData"

SituationClass(situation) ==
    CASE situation \in {"transport failure", "poll exhaustion"} -> "try again later"
      [] situation = "invalid date" -> "fix your input"
      [] situation = "unusable data" -> "unusable backend data"
      [] OTHER -> ""

\* The three error kinds of the package.
ErrorKinds == {"ConnectionsFailed", "CantGetData", "InvalidDate"}

\* C13 as stated: a connection failure or poll exhaustion, an invalid date
\* and unusable backend data are three situations no two of which produce
\* the same caller-visible failure.
C13_ThreeSituationsToldApart ==
    \A a, b \in seen :
        (/\ SituationClass(a[1]) # ""
         /\ SituationClass(b[1]) # ""
         /\ SituationClass(a[1]) # SituationClass(b[1]))
            => a[2] # b[2]

\* C13 as amended: the failure a caller receives tells apart the three
\* error kinds, ConnectionsFailed (a connection failure), InvalidDate and
\* CantGetData: two failures are the same exactly when the error kind is
\* the same.  Poll exhaustion raises CantGetData and so produces the same
\* failure as unusable backend data.
C13_ThreeErrorKindsToldApart ==
    \A a, b \in seen :
        (BackendRaises(a[1]) \in ErrorKinds /\ BackendRaises(b[1]) \in ErrorKinds)
            => (a[2] = b[2] <=> BackendRaises(a[1]) = BackendRaises(b[1]))

\* C13 witness: one Client has met a connection failure, an invalid date
\* and unusable data, and answered them with three different failures, the
\* last two of the same status.
C13_Witness ==
    \E a, b, c \in seen :
        /\ a[1] = "transport failure" /\ a[2].status = "UNAUTHORIZED"
        /\ b[1] = "invalid date" /\ b[2].status = "BAD_REQUEST"
        /\ c[1] = "unusable data" /\ c[2].status = "BAD_REQUEST"
        /\ b[2] # c[2]

\* C20: when the backend function raises ConnectionsFailed, CantGetData or
\* InvalidDate, _get_response returns an error response without invoking
\* get_report or search again: a Client report method invokes the backend
\* function at most once.
C20_ErrorIsTerminal ==
    api.method \in {"get_report", "search"} =>
        /\ api.calls <= 1
        /\ (api.calls >= 1 /\ BackendRaises(service[1]) \in ErrorKinds)
              => /\ api.result.kind = "response"
                 /\ api.result.status \in {"UNAUTHORIZED", "BAD_REQUEST"}
                 /\ api.result = ErrorResponse(BackendRaises(service[1]))

\* C20 witness: the backend function raised CantGetData and would have
\* returned the report on another invocation; the call ended with the data
\* error response after the one invocation.
C20_Witness ==
    /\ api.method = "get_report"
    /\ api.calls = 1
    /\ service = <<"poll exhaustion", "report ready">>
    /\ api.result = Responded(ResponseTemplate("BAD_REQUEST"))

\* The stored credentials of a Client object.
StoredCredentials(self) == <<self.username, self.password, self.domain>>

\* The last call was a report or search method that reached _get_response.
ReachedGetResponse ==
    \/ api.method \in {"get_report", "search"}
    \/ api.method = "get_sl_report" /\ IntRaises(api.deadline) = ""

\* The response of line 429-433.
NotAuthorized ==
    Responded(WithDescription(ResponseTemplate("UNAUTHORIZED"),
                              "You are not authorized to get report."))

\* C24: while the session of a Client is None, every report or search
\* method that reaches _get_response returns the UNAUTHORIZED response and
\* invokes neither get_report nor search.
C24_NoSessionIsUnauthorized ==
    (ReachedGetResponse /\ client.session = "None")
        => api.calls = 0 /\ api.result = NotAuthorized

\* C24 witness: a Client constructed with complete credentials, on which
\* connect has not succeeded, was asked to search and refused without an
\* invocation.
C24_Witness ==
    /\ api.method = "search"
    /\ client.session = "None"
    /\ all(StoredCredentials(client))
    /\ api.calls = 0
    /\ api.result.status = "UNAUTHORIZED"

\* C25: once the session of a Client has been set by a successful connect,
\* no later operation resets it, neither a connect that fails nor a report
\* call that ends in an error response, and a report call on such a Client
\* reaches the backend function.
C25_SessionNeverReset ==
    /\ [][client.session = "ActiveConnect"
            => client'.session = "ActiveConnect"]_vars
    /\ []((ReachedGetResponse /\ client.session = "ActiveConnect")
            => api.calls = 1)

\* C25 witness: connect failed on a Client that had a session, and the
\* session is still there.
C25_Witness ==
    /\ api.method = "connect"
    /\ api.before.session = "ActiveConnect"
    /\ api.calls = 1
    /\ api.result = Responded(ResponseTemplate("UNAUTHORIZED"))
    /\ client.session = "ActiveConnect"

\* C26: connect, when neither its arguments nor the stored credentials
\* form a complete triple, returns the UNAUTHORIZED response without
\* calling get_session and leaves the stored credentials and the session
\* unchanged.
C26_IncompleteCredentialsRefused ==
    (/\ api.method = "connect"
     /\ ~all(api.args)
     /\ ~all(StoredCredentials(api.before)))
        => /\ api.calls = 0
           /\ api.result = Responded(ResponseTemplate("UNAUTHORIZED"))
           /\ client = api.before

\* C26 witness: connect was given a user name only, on a Client constructed
\* without credentials, and refused.
C26_Witness ==
    /\ api.method = "connect"
    /\ api.args = <<"user", "", "">>
    /\ StoredCredentials(api.before) = <<"", "", "">>
    /\ api.calls = 0
    /\ api.result.status = "UNAUTHORIZED"
    /\ client = api.before

\* C27: get_sl_report with a deadline that int() rejects returns the
\* BAD_REQUEST response without invoking get_report, whether or not the
\* Client is connected: the test comes before the session test.
C27_BadDeadlineIsBadRequest ==
    (api.method = "get_sl_report" /\ IntRaises(api.deadline) # "")
        => /\ api.calls = 0
           /\ api.result.kind = "response"
           /\ api.result.status = "BAD_REQUEST"

\* C27 witness: a Client without a session was asked for the report with a
\* deadline that is not a number and answered BAD_REQUEST.
C27_Witness ==
    /\ api.method = "get_sl_report"
    /\ api.deadline = [type |-> "str", text |-> "soon"]
    /\ client.session = "None"
    /\ api.calls = 0
    /\ api.result.status = "BAD_REQUEST"

\* C29: connect called with a complete triple replaces the stored
\* credentials before the connection attempt, so that they stay replaced
\* when the attempt fails; called with an incomplete triple while complete
\* credentials are stored, it connects with the stored credentials and
\* leaves them unchanged.
C29_CredentialsReplacedBeforeAttempt ==
    api.method = "connect" =>
        /\ all(api.args)
              => /\ StoredCredentials(client) = api.args
                 /\ api.calls = 1
                 /\ api.login = api.args
        /\ (~all(api.args) /\ all(StoredCredentials(api.before)))
              => /\ StoredCredentials(client) = StoredCredentials(api.before)
                 /\ api.calls = 1
                 /\ api.login = StoredCredentials(api.before)

\* C29 witness: connect was given complete credentials other than the
\* complete ones stored, the attempt failed, and the new ones are stored.
C29_Witness ==
    /\ api.method = "connect"
    /\ all(api.args)
    /\ all(StoredCredentials(api.before))
    /\ StoredCredentials(api.before) # api.args
    /\ api.result = Responded(ResponseTemplate("UNAUTHORIZED"))
    /\ StoredCredentials(client) = api.args

(***************************************************************************)
(* A claim about the order of the group tests and completion, checked      *)
(* under SpecSL.                                                           *)
(***************************************************************************)

\* C28: a report over a range of several days whose table has no data row
\* is not turned into a grid of synthesized rows: parse raises CantGetData;
\* a day without rows is filled with synthesized rows only when another
\* day of the report has a row.
C28_EmptyTableIsNotCompleted ==
    (Parsed /\ page.start_date < page.end_date) =>
        /\ page.rows = <<>>
              => /\ sl_result.status = "CantGetData"
                 /\ sl_result.days = <<>>
                 /\ sl_result.collection = <<>>
        /\ (\E i \in 1..Len(sl_result.days) : sl_result.days[i].content # <<>>)
              => LET source == SourceDays
                 IN  \A i \in 1..Len(sl_result.days) :
                        (/\ source[i].content = <<>>
                         /\ sl_result.days[i].content # <<>>)
                            => \E k \in 1..Len(source) : source[k].content # <<>>

\* C28 witness: of a report over several days one day had rows and another
\* had none; the day without rows has been filled with synthesized rows.
C28_Witness ==
    /\ Returned
    /\ page.start_date < page.end_date
    /\ \E i, k \in 1..Len(sl_result.days) :
          /\ SourceDays[i].content = <<>>
          /\ Len(sl_result.days[i].content) = support_group_count
          /\ SourceDays[k].content # <<>>

=============================================================================
